---- MODULE Spec2Model ----
(***************************************************************************)
(* The MQTT client manager of src/src/client.ts (createMqttClient) as a    *)
(* state machine.  One action per public operation (connect, disconnect,   *)
(* publish, subscribe) and per callback the manager registers (the         *)
(* connect / message / error / close / offline listeners, the reconnect    *)
(* timer, the connect grace timer, the completion callback of end()).      *)
(* JavaScript runs each of them to completion, so each is one atomic step. *)
(*                                                                         *)
(* The underlying protocol engine (the mqtt library) is the environment:   *)
(* it decides when and which events arrive.  What the model keeps of it is *)
(* the transport state of the connection object the manager holds, the     *)
(* number of connection objects that are still live but no longer held,    *)
(* and the completion callbacks of end() that have not run yet.            *)
(***************************************************************************)
EXTENDS Integers, Sequences, FiniteSets, TLC

VARIABLES
    client,             \* the held connection object (st = "null": none)
    messageHandlers,    \* Map pattern -> handlers, in insertion order
    reconnectAttempts,
    reconnectTimer,     \* 0 (null) or the delay the pending timer was armed with
    connectPromise,     \* "null", or the in-flight promise of connect()
    manualDisconnect,
    timers,             \* runtime: armed reconnect timeouts not fired or cleared
    stalePromises,      \* unsettled promises connectPromise no longer refers to
    strayEnds,          \* end() callbacks pending on objects already closed
    orphans,            \* live connection objects the manager no longer holds
    lastVerb,           \* history: the last of connect() / disconnect() called
    eff,                \* what the last step did (engine calls, handlers, result)
    scope,              \* which limits bound this run (chosen once, in Init)
    config,             \* mergeWithEnv(rawConfig), fixed at construction
    channel,            \* the channel plugin: its client variable, startAccount
    pure                \* an evaluation of a pure function: inputs and value

vars == <<client, messageHandlers, reconnectAttempts, reconnectTimer,
          connectPromise, manualDisconnect, timers, stalePromises, strayEnds,
          orphans, lastVerb, eff, scope, config, channel, pure>>

---------------------------------------------------------------------------
(* Program constants (src/src/client.ts:22-25).                            *)
DEFAULT_RECONNECT_MS == 5000
MAX_RECONNECT_MS == 60000
INITIAL_CONNECT_GRACE_MS == 5000
RECONNECT_JITTER_PCT == 20

(* Bounds of the model.                                                    *)
MaxAttempts == 2        \* reconnectAttempts explored up to this value
MaxPromises == 2        \* unsettled connect() promises at a time
MaxEnds == 2            \* end() callbacks pending at a time
MaxOrphans == 1         \* live objects not held, at a time
MaxHandlers == 2        \* handler registrations in the registry
RandomDen == 2          \* Math.random() is drawn from {0/RandomDen, ...}
MaxSegs == 3            \* segments of a pattern or topic handed to topicMatches
MaxBackoffAttempt == 6  \* attempts handed to getBackoffDelay on its own
JitterSteps == 8        \* there, Math.random() is drawn from {0/JitterSteps, ...}

(* The session and the registry are explored to their bounds in turn, not  *)
(* in product: a run is either a session run (every interleaving of the    *)
(* connection lifecycle up to the bounds above, with one registration) or  *)
(* a registry run (the registry up to MaxHandlers registrations, over a    *)
(* lifecycle with one reconnect attempt, one promise and one pending end() *)
(* callback at a time).  Init chooses; every formula is checked over both. *)
SessionScope ==
    [attempts |-> MaxAttempts, promises |-> MaxPromises, ends |-> MaxEnds,
     orphans |-> MaxOrphans, handlers |-> 1, randoms |-> RandomDen]
RegistryScope ==
    [attempts |-> 1, promises |-> 1, ends |-> 1, orphans |-> 0,
     handlers |-> MaxHandlers, randoms |-> 1]
(* A qos run: one registration and one attempt, over every interleaving   *)
(* of disconnects, for a manager created with any configured qos.          *)
QosScope ==
    [attempts |-> 1, promises |-> 1, ends |-> MaxEnds, orphans |-> MaxOrphans,
     handlers |-> 1, randoms |-> 1]
(* A channel run: the one manager the plugin creates, called by the        *)
(* plugin only.                                                            *)
ChannelScope ==
    [attempts |-> MaxAttempts, promises |-> 1, ends |-> 1, orphans |-> 0,
     handlers |-> 1, randoms |-> 1]
(* A run about the promises of connect(): as many of them waiting as a     *)
(* session run has, over a lifecycle with one reconnect attempt, two       *)
(* pending end() callbacks and one object without owner at a time.         *)
PromiseScope ==
    [attempts |-> 1, promises |-> MaxPromises, ends |-> 2, orphans |-> 1,
     handlers |-> 1, randoms |-> 1]
(* A backoff run: consecutive failures up to MaxBackoffAttempt, so that    *)
(* the delay reaches its cap, with every value of Math.random(), over a    *)
(* lifecycle with one promise and one pending end() callback at a time.    *)
BackoffScope ==
    [attempts |-> MaxBackoffAttempt, promises |-> 1, ends |-> 1, orphans |-> 0,
     handlers |-> 1, randoms |-> RandomDen]
(* A dispatch run: one registration more than a registry run has, over the *)
(* same lifecycle, with three patterns of which two are wildcards.         *)
DispatchScope ==
    [attempts |-> 1, promises |-> 1, ends |-> 1, orphans |-> 0,
     handlers |-> MaxHandlers + 1, randoms |-> 1]
Limits ==
    CASE scope = "session" -> SessionScope
      [] scope = "dispatch" -> DispatchScope
      [] scope = "backoff" -> BackoffScope
      [] scope = "promises" -> PromiseScope
      [] scope = "qos" -> QosScope
      [] scope = "channel" -> ChannelScope
      [] scope = "accounts" -> ChannelScope
      [] OTHER -> RegistryScope

(* Strings are sequences of characters, so that split("/") and             *)
(* includes("+") are computed and not assumed.                             *)
TopicAB == <<"a", "/", "b">>
TopicC == <<"c">>
PatternAPlus == <<"a", "/", "+">>
PatternAll == <<"#">>
Patterns ==
    IF scope = "dispatch" THEN {TopicAB, PatternAPlus, PatternAll}
    ELSE {TopicAB, PatternAPlus}
Topics == {TopicAB, TopicC}
Handlers == {"h1", "h2"}
(* In a dispatch run every registration brings a handler of its own: the   *)
(* n-th function registered is HandlerNames[n].                            *)
HandlerNames == <<"h1", "h2", "h3", "h4", "h5">>
HandlerSet(hs) == {hs[i] : i \in DOMAIN hs}
Payloads == {"hello"}
(* publish called without qos, or with one (in a qos run).                 *)
QosArgs == {<<>>, <<0>>, <<2>>}

(* The segments the strings handed to topicMatches on its own are made of: *)
(* two literals, the two wildcards and the empty segment.                  *)
Segments == {<<"a">>, <<"b">>, <<"+">>, <<"#">>, <<>>}
SegmentLists == UNION {[1..n -> Segments] : n \in 1..MaxSegs}

(* The string whose segments are segs: Array.prototype.join("/").          *)
RECURSIVE join(_)
join(segs) ==
    IF Len(segs) = 1 THEN Head(segs)
    ELSE Head(segs) \o <<"/">> \o join(Tail(segs))

Min(a, b) == IF a < b THEN a ELSE b
Max(a, b) == IF a > b THEN a ELSE b

RECURSIVE Pow2(_)
Pow2(n) == IF n = 0 THEN 1 ELSE 2 * Pow2(n - 1)

---------------------------------------------------------------------------
(* Configuration (src/src/env.ts).  An optional value is <<>> (undefined   *)
(* or null) or <<v>>.                                                      *)

Undefined == <<>>
Some(v) == <<v>>

(* a ?? b                                                                  *)
coalesce(a, b) == IF a = Undefined THEN b ELSE a

DEFAULT_INBOUND == <<"openclaw", "/", "inbound">>
DEFAULT_OUTBOUND == <<"openclaw", "/", "outbound">>
DEFAULT_QOS == 1

(* mergeWithEnv with `config ?? env` for the four overridable fields.      *)
mergeWithEnv_ConfigFirst(env, cfg) ==
    [brokerUrl |-> coalesce(coalesce(cfg.brokerUrl, env.BROKER_URL), Some("")),
     username  |-> coalesce(cfg.username, env.USERNAME),
     password  |-> coalesce(cfg.password, env.PASSWORD),
     clientId  |-> coalesce(cfg.clientId, env.CLIENT_ID),
     topics    |-> coalesce(cfg.topics,
                            Some([inbound |-> DEFAULT_INBOUND,
                                  outbound |-> DEFAULT_OUTBOUND])),
     qos       |-> coalesce(cfg.qos, Some(DEFAULT_QOS)),
     tls       |-> IF cfg.tls # Undefined
                   THEN Some([cfg.tls[1] EXCEPT
                                 !.ca = coalesce(env.CA_PATH, cfg.tls[1].ca)])
                   ELSE Undefined]

mergeWithEnv(env, cfg) ==
    [brokerUrl |-> coalesce(coalesce(env.BROKER_URL, cfg.brokerUrl), Some("")),
     username  |-> coalesce(env.USERNAME, cfg.username),
     password  |-> coalesce(env.PASSWORD, cfg.password),
     clientId  |-> coalesce(env.CLIENT_ID, cfg.clientId),
     topics    |-> coalesce(cfg.topics,
                            Some([inbound |-> DEFAULT_INBOUND,
                                  outbound |-> DEFAULT_OUTBOUND])),
     qos       |-> coalesce(cfg.qos, Some(DEFAULT_QOS)),
     tls       |-> IF cfg.tls # Undefined
                   THEN Some([cfg.tls[1] EXCEPT
                                 !.ca = coalesce(env.CA_PATH, cfg.tls[1].ca)])
                   ELSE Undefined]

(* No MQTT_* variable is set; a raw config that names the broker only.     *)
NoEnv ==
    [BROKER_URL |-> Undefined, USERNAME |-> Undefined, PASSWORD |-> Undefined,
     CLIENT_ID |-> Undefined, CA_PATH |-> Undefined]
BrokerOnly ==
    [brokerUrl |-> Some("mqtt://broker"), username |-> Undefined,
     password |-> Undefined, clientId |-> Undefined, topics |-> Undefined,
     qos |-> Undefined, tls |-> Undefined]
CustomTopics == [inbound |-> TopicAB, outbound |-> TopicC]
CustomTls == [enabled |-> TRUE, ca |-> Some("C")]

---------------------------------------------------------------------------
(* topicMatches and its string helpers.                                    *)

includes(s, c) == \E i \in DOMAIN s : s[i] = c

RECURSIVE split(_)
split(s) ==
    IF ~includes(s, "/") THEN <<s>>
    ELSE LET i == CHOOSE k \in DOMAIN s :
                      s[k] = "/" /\ \A j \in 1..(k - 1) : s[j] # "/"
         IN  <<SubSeq(s, 1, i - 1)>> \o split(SubSeq(s, i + 1, Len(s)))

(* The loop with a '#' that asks for a topic segment at its own level.     *)
RECURSIVE matchFrom_HashNeedsSegment(_, _, _)
matchFrom_HashNeedsSegment(patternParts, topicParts, i) ==
    IF i > Len(patternParts) THEN Len(patternParts) = Len(topicParts)
    ELSE LET p == patternParts[i] IN
         IF p = <<"#">> THEN i <= Len(topicParts)
         ELSE IF p = <<"+">>
              THEN IF i > Len(topicParts) THEN FALSE
                   ELSE matchFrom_HashNeedsSegment(patternParts, topicParts, i + 1)
         ELSE IF i > Len(topicParts) \/ p # topicParts[i] THEN FALSE
         ELSE matchFrom_HashNeedsSegment(patternParts, topicParts, i + 1)

(* The loop followed by `return true` instead of the length comparison.    *)
RECURSIVE matchFrom_NoLengthCheck(_, _, _)
matchFrom_NoLengthCheck(patternParts, topicParts, i) ==
    IF i > Len(patternParts) THEN TRUE
    ELSE LET p == patternParts[i] IN
         IF p = <<"#">> THEN TRUE
         ELSE IF p = <<"+">>
              THEN IF i > Len(topicParts) THEN FALSE
                   ELSE matchFrom_NoLengthCheck(patternParts, topicParts, i + 1)
         ELSE IF i > Len(topicParts) \/ p # topicParts[i] THEN FALSE
         ELSE matchFrom_NoLengthCheck(patternParts, topicParts, i + 1)

(* The for loop of topicMatches from 1-based index i on.                   *)
RECURSIVE matchFrom(_, _, _)
matchFrom(patternParts, topicParts, i) ==
    IF i > Len(patternParts) THEN Len(patternParts) = Len(topicParts)
    ELSE LET p == patternParts[i] IN
         IF p = <<"#">> THEN TRUE
         ELSE IF p = <<"+">>
              THEN IF i > Len(topicParts) THEN FALSE
                   ELSE matchFrom(patternParts, topicParts, i + 1)
         ELSE IF i > Len(topicParts) \/ p # topicParts[i] THEN FALSE
         ELSE matchFrom(patternParts, topicParts, i + 1)

(* topicMatches without `if (pattern === topic) return true`.              *)
topicMatches_NoEqualityShortcut(pattern, topic) ==
    IF ~includes(pattern, "+") /\ ~includes(pattern, "#") THEN FALSE
    ELSE matchFrom(split(pattern), split(topic), 1)

topicMatches(pattern, topic) ==
    IF pattern = topic THEN TRUE
    ELSE IF ~includes(pattern, "+") /\ ~includes(pattern, "#") THEN FALSE
    ELSE matchFrom(split(pattern), split(topic), 1)

---------------------------------------------------------------------------
(* The handler registry: a Map, kept as the sequence of its entries in     *)
(* insertion order.                                                        *)

mapHas(m, k) == \E i \in DOMAIN m : m[i].pattern = k

mapGet(m, k) ==
    IF mapHas(m, k)
    THEN m[CHOOSE i \in DOMAIN m : m[i].pattern = k].handlers
    ELSE <<>>

(* Map.set: an existing key keeps its place, a new key goes last.          *)
mapSet(m, k, v) ==
    IF mapHas(m, k)
    THEN [i \in DOMAIN m |->
             IF m[i].pattern = k THEN [pattern |-> k, handlers |-> v] ELSE m[i]]
    ELSE Append(m, [pattern |-> k, handlers |-> v])

mapKeys(m) == [i \in DOMAIN m |-> m[i].pattern]

RECURSIVE registrations(_)
registrations(m) ==
    IF m = <<>> THEN 0 ELSE Len(Head(m).handlers) + registrations(Tail(m))

---------------------------------------------------------------------------
(* The manager's state as one record, so that the statements of a function *)
(* compose in order; an action applies the record a function returns.      *)

NullClient ==
    [st |-> "null", ending |-> FALSE, deferred |-> FALSE, cbs |-> 0, subs |-> {}]

(* mqtt.connect(url, options): a fresh object, connecting, with the        *)
(* manager's listeners attached.                                           *)
NewClient ==
    [st |-> "connecting", ending |-> FALSE, deferred |-> FALSE, cbs |-> 0,
     subs |-> {}]

NoStale == [listening |-> 0, timer |-> 0]

(* What a step did: the operation or callback that ran, its arguments (the *)
(* topic, and the payload or the handler), the calls it made on the        *)
(* engine, the qos option it gave them, the handlers it invoked, how it    *)
(* ended.                                                                  *)
(* No handler calls back into the manager.                                 *)
NoReentry == [by |-> "", does |-> "none", pattern |-> <<>>, handler |-> ""]

Eff(act) ==
    [act |-> act, topic |-> <<>>, arg |-> "", calls |-> <<>>,
     invoked |-> <<>>, result |-> "none", qos |-> Undefined, message |-> "",
     reentry |-> NoReentry]

Begin(act) ==
    [client |-> client, messageHandlers |-> messageHandlers,
     reconnectAttempts |-> reconnectAttempts, reconnectTimer |-> reconnectTimer,
     connectPromise |-> connectPromise, manualDisconnect |-> manualDisconnect,
     timers |-> timers, stalePromises |-> stalePromises,
     strayEnds |-> strayEnds, orphans |-> orphans, lastVerb |-> lastVerb,
     config |-> config, channel |-> channel, eff |-> Eff(act)]

BeginWith(act, topic, arg) ==
    [Begin(act) EXCEPT !.eff.topic = topic, !.eff.arg = arg]

promiseCount(s) ==
    (IF s.connectPromise = "null" THEN 0 ELSE 1)
    + s.stalePromises.listening + s.stalePromises.timer

WithinBounds(s) ==
    /\ s.reconnectAttempts <= Limits.attempts
    /\ promiseCount(s) <= Limits.promises
    /\ s.client.cbs + s.strayEnds <= Limits.ends
    /\ s.orphans <= Limits.orphans
    /\ registrations(s.messageHandlers) <= Limits.handlers

Apply(s) ==
    /\ WithinBounds(s)
    /\ client' = s.client
    /\ messageHandlers' = s.messageHandlers
    /\ reconnectAttempts' = s.reconnectAttempts
    /\ reconnectTimer' = s.reconnectTimer
    /\ connectPromise' = s.connectPromise
    /\ manualDisconnect' = s.manualDisconnect
    /\ timers' = s.timers
    /\ stalePromises' = s.stalePromises
    /\ strayEnds' = s.strayEnds
    /\ orphans' = s.orphans
    /\ lastVerb' = s.lastVerb
    /\ eff' = s.eff
    /\ scope' = scope
    /\ config' = s.config
    /\ channel' = s.channel
    /\ pure' = pure

(* A call of the underlying engine, recorded in the step's effects.        *)
call(s, op, topic) ==
    [s EXCEPT !.eff.calls = Append(@, [op |-> op, topic |-> topic])]

result(s, r) == [s EXCEPT !.eff.result = r]

(* client?.connected                                                       *)
connected(s) == s.client.st = "connected"

(* An isConnected() that also looks at the manual-disconnect flag.         *)
isConnected_UnlessManual == client.st = "connected" /\ ~manualDisconnect

(* isConnected()                                                           *)
isConnected == client.st = "connected"

---------------------------------------------------------------------------
(* Backoff.  rnd / RandomDen is the value Math.random() returned.          *)

(* The base without the cap at MAX_RECONNECT_MS.                           *)
getBackoffBase_NoCap(attempt) ==
    DEFAULT_RECONNECT_MS * Pow2(Max(0, attempt - 1))

getBackoffBase(attempt) ==
    Min(DEFAULT_RECONNECT_MS * Pow2(Max(0, attempt - 1)), MAX_RECONNECT_MS)

(* A jitter of up to 120% of base instead of 20%.                          *)
getBackoffDelayAt_WideJitter(attempt, rnd, steps) ==
    LET base == getBackoffBase(attempt)
        num  == base * 100 * steps + base * 120 * rnd
        den  == 100 * steps
    IN  (2 * num + den) \div (2 * den)

(* Math.round(base + base * RECONNECT_JITTER * Math.random()), where       *)
(* Math.random() returned rnd / steps.                                     *)
getBackoffDelayAt(attempt, rnd, steps) ==
    LET base == getBackoffBase(attempt)
        num  == base * 100 * steps + base * RECONNECT_JITTER_PCT * rnd
        den  == 100 * steps
    IN  (2 * num + den) \div (2 * den)

getBackoffDelay(attempt, rnd) == getBackoffDelayAt(attempt, rnd, RandomDen)

Randoms == 0..(Limits.randoms - 1)

---------------------------------------------------------------------------
(* The manager's functions.                                                *)

clearReconnectTimer(s) ==
    IF s.reconnectTimer # 0
    THEN [s EXCEPT !.timers = @ - 1, !.reconnectTimer = 0]
    ELSE s

(* A timer armed with the delay of the counter before its increment.       *)
armReconnectTimer_PreIncrement(s, rnd) ==
    [s EXCEPT !.reconnectTimer = getBackoffDelay(s.reconnectAttempts, rnd),
              !.reconnectAttempts = @ + 1,
              !.timers = @ + 1,
              !.eff.result = "scheduled"]

(* setTimeout(..., delay) of scheduleReconnect, with its log line.         *)
armReconnectTimer(s, rnd) ==
    LET n == s.reconnectAttempts + 1 IN
    [s EXCEPT !.reconnectAttempts = n,
              !.reconnectTimer = getBackoffDelay(n, rnd),
              !.timers = @ + 1,
              !.eff.result = "scheduled"]

(* scheduleReconnect without its `if (reconnectTimer) return`.             *)
scheduleReconnect_NoPendingCheck(s, rnd) ==
    IF s.manualDisconnect THEN s ELSE armReconnectTimer(s, rnd)

(* scheduleReconnect that replaces a pending timer by a new one.           *)
scheduleReconnect_Rearm(s, rnd) ==
    IF s.manualDisconnect THEN s
    ELSE armReconnectTimer(clearReconnectTimer(s), rnd)

scheduleReconnect(s, rnd) ==
    IF s.manualDisconnect THEN s
    ELSE IF s.reconnectTimer # 0 THEN s
    ELSE armReconnectTimer(s, rnd)

(* What the engine does on reconnect() of the held object: a reconnect     *)
(* asked for while end() is in progress is deferred until the close        *)
(* completes; otherwise a new attempt starts (a connected transport is     *)
(* torn down first), and the broker-side subscriptions are gone            *)
(* (clean: true).                                                          *)
engineReconnect(s) ==
    IF s.client.ending
    THEN [s EXCEPT !.client.deferred = TRUE]
    ELSE [s EXCEPT !.client.st = "connecting", !.client.subs = {}]

(* try { client.reconnect() } catch { scheduleReconnect("reconnect error") } *)
tryReconnect(s, throws, rnd) ==
    LET s1 == call(s, "reconnect", <<>>) IN
    IF throws THEN scheduleReconnect(s1, rnd) ELSE engineReconnect(s1)

(* settle() of one promise: connectPromise = null, whichever promise the   *)
(* variable refers to by now; a promise it referred to stays unsettled.    *)
dropMarker(s) ==
    IF s.connectPromise = "null" THEN s
    ELSE [s EXCEPT !.connectPromise = "null",
                   !.stalePromises[s.connectPromise] = @ + 1]

(* The once("connect") listeners of all unsettled promises run: each       *)
(* clears its grace timer and settles.                                     *)
settleListening(s) ==
    IF s.connectPromise # "listening" /\ s.stalePromises.listening = 0 THEN s
    ELSE LET s1 == IF s.connectPromise = "listening"
                   THEN [s EXCEPT !.connectPromise = "null"]
                   ELSE s
         IN  result(dropMarker([s1 EXCEPT !.stalePromises.listening = 0]),
                    "settled")

(* client.removeAllListeners(): the promises' once listeners go too; their *)
(* grace timers stay armed.                                                *)
removeAllListeners(s) ==
    [s EXCEPT !.connectPromise = IF @ = "listening" THEN "timer" ELSE @,
              !.stalePromises = [listening |-> 0,
                                 timer |-> @.timer + @.listening]]

(* connect without its `if (client?.connected) return`.                   *)
connect_NoConnectedCheck(s, throws, rnd) ==
    IF s.connectPromise # "null" THEN result(s, "shared")
    ELSE LET s1 == [s EXCEPT !.manualDisconnect = FALSE]
             s2 == IF s1.client.st = "null"
                   THEN call([s1 EXCEPT !.client = NewClient], "open", <<>>)
                   ELSE tryReconnect(s1, throws, rnd)
         IN  IF connected(s2) THEN result(s2, "resolved")
             ELSE result([s2 EXCEPT !.connectPromise = "listening"], "pending")

connect(s, throws, rnd) ==
    IF connected(s) THEN result(s, "already")
    ELSE IF s.connectPromise # "null" THEN result(s, "shared")
    ELSE LET s1 == [s EXCEPT !.manualDisconnect = FALSE]
             s2 == IF s1.client.st = "null"
                   THEN call([s1 EXCEPT !.client = NewClient], "open", <<>>)
                   ELSE tryReconnect(s1, throws, rnd)
         IN  IF connected(s2) THEN result(s2, "resolved")
             ELSE result([s2 EXCEPT !.connectPromise = "listening"], "pending")

(* The callback of the reconnect timer.                                    *)
reconnectTimerFired(s, throws, rnd) ==
    LET s1 == [s EXCEPT !.reconnectTimer = 0, !.timers = @ - 1] IN
    IF s1.manualDisconnect THEN s1
    ELSE IF s1.client.st = "null" THEN connect(s1, throws, rnd)
    ELSE tryReconnect(s1, throws, rnd)

(* disconnect without `reconnectAttempts = 0`.                             *)
disconnect_KeepsCounter(s) ==
    IF s.client.st = "null" THEN result(s, "noop")
    ELSE LET s1 == [s EXCEPT !.manualDisconnect = TRUE]
             s2 == clearReconnectTimer(s1)
             s4 == dropMarker(s2)
             s5 == call(s4, "end", <<>>)
         IN  result([s5 EXCEPT !.client.ending = TRUE, !.client.cbs = @ + 1],
                    "pending")

(* disconnect that sets the flag and clears the registry before looking    *)
(* at `client`.                                                            *)
disconnect_ClearsFirst(s) ==
    IF s.client.st = "null"
    THEN result([s EXCEPT !.manualDisconnect = TRUE, !.messageHandlers = <<>>],
                "noop")
    ELSE LET s1 == [s EXCEPT !.manualDisconnect = TRUE]
             s2 == clearReconnectTimer(s1)
             s3 == [s2 EXCEPT !.reconnectAttempts = 0]
             s4 == dropMarker(s3)
             s5 == call(s4, "end", <<>>)
         IN  result([s5 EXCEPT !.client.ending = TRUE, !.client.cbs = @ + 1],
                    "pending")

disconnect(s) ==
    IF s.client.st = "null" THEN result(s, "noop")
    ELSE LET s1 == [s EXCEPT !.manualDisconnect = TRUE]
             s2 == clearReconnectTimer(s1)
             s3 == [s2 EXCEPT !.reconnectAttempts = 0]
             s4 == dropMarker(s3)
             s5 == call(s4, "end", <<>>)
         IN  result([s5 EXCEPT !.client.ending = TRUE, !.client.cbs = @ + 1],
                    "pending")

(* The completion callback handed to end(): it acts on whatever `client`   *)
(* is when it runs.  A dropped object that is connecting, connected or has *)
(* a deferred reconnect stays live without an owner.                       *)
endCallback(s) ==
    LET c     == s.client
        live  == IF c.ending THEN c.deferred
                 ELSE c.st \in {"connecting", "connected"}
        s1    == IF c.st = "null" THEN s
                 ELSE [removeAllListeners(s) EXCEPT
                          !.orphans = IF live THEN @ + 1 ELSE @,
                          !.strayEnds = @ + c.cbs]
    IN  result([s1 EXCEPT !.client = NullClient, !.messageHandlers = <<>>],
               "resolved")

(* publish guarded by `!client` instead of `!client?.connected`.           *)
publish_ClientOnly(s, topic, message, fails, qos) ==
    IF s.client.st = "null" THEN result(s, "NotConnected")
    ELSE result(call(s, "publish", topic), IF fails THEN "rejected" ELSE "ok")

(* publish that always hands the engine the configured qos.                *)
publish_ConfigQosOnly(s, topic, message, fails, qos) ==
    IF ~connected(s) THEN result(s, "NotConnected")
    ELSE result([call(s, "publish", topic) EXCEPT !.eff.qos = s.config.qos],
                IF fails THEN "rejected" ELSE "ok")

(* publish(topic, message, qos = config.qos); `fails` is what the engine   *)
(* reports to the callback.                                                *)
publish(s, topic, message, fails, qos) ==
    IF ~connected(s) THEN result(s, "NotConnected")
    ELSE result([call(s, "publish", topic) EXCEPT
                    !.eff.qos = coalesce(qos, s.config.qos),
                    !.eff.message = message],
                IF fails THEN "rejected" ELSE "ok")

(* client.subscribe(topic, ...) on the held object; subs keeps the topics  *)
(* a subscribe was issued for on the current connection.                   *)
engineSubscribe(s, topic) ==
    [call(s, "subscribe", topic) EXCEPT !.client.subs = @ \cup {topic},
                                        !.eff.qos = s.config.qos]

(* subscribe with handlers.unshift(handler): the newest handler first.     *)
subscribe_Unshift(s, topic, handler, fails) ==
    LET handlers == <<handler>> \o mapGet(s.messageHandlers, topic)
        s1 == [s EXCEPT !.messageHandlers = mapSet(@, topic, handlers)]
    IN  IF connected(s1)
        THEN result(engineSubscribe(s1, topic),
                    IF fails THEN "subscribeFailed" ELSE "subscribed")
        ELSE s1

(* subscribe that only registers and leaves the underlying subscribe to    *)
(* the next connected event.                                               *)
subscribe_NoImmediate(s, topic, handler, fails) ==
    LET handlers == Append(mapGet(s.messageHandlers, topic), handler)
    IN  [s EXCEPT !.messageHandlers = mapSet(@, topic, handlers)]

(* subscribe that takes the registration back when the engine reports a   *)
(* failure.                                                                *)
subscribe_UndoOnFailure(s, topic, handler, fails) ==
    LET handlers == Append(mapGet(s.messageHandlers, topic), handler)
        s1 == [s EXCEPT !.messageHandlers = mapSet(@, topic, handlers)]
    IN  IF connected(s1)
        THEN IF fails THEN result(call(s, "subscribe", topic), "subscribeFailed")
             ELSE result(engineSubscribe(s1, topic), "subscribed")
        ELSE s1

(* `fails` is what the engine reports to the callback of its subscribe:    *)
(* the callback logs it.                                                   *)
subscribe(s, topic, handler, fails) ==
    LET handlers == Append(mapGet(s.messageHandlers, topic), handler)
        s1 == [s EXCEPT !.messageHandlers = mapSet(@, topic, handlers)]
    IN  IF connected(s1)
        THEN result(engineSubscribe(s1, topic),
                    IF fails THEN "subscribeFailed" ELSE "subscribed")
        ELSE s1

(* The resubscription loop of the "connect" listener.                      *)
RECURSIVE resubscribe(_, _)
resubscribe(s, keys) ==
    IF keys = <<>> THEN s
    ELSE resubscribe(engineSubscribe(s, Head(keys)), Tail(keys))

(* A sweep that subscribes once per registered handler, not per pattern.   *)
RECURSIVE keyPerHandler(_)
keyPerHandler(m) ==
    IF m = <<>> THEN <<>>
    ELSE [i \in DOMAIN Head(m).handlers |-> Head(m).pattern]
         \o keyPerHandler(Tail(m))

onConnect_PerHandler(s) ==
    LET s1 == [s EXCEPT !.reconnectAttempts = 0]
        s2 == clearReconnectTimer(s1)
    IN  resubscribe(s2, keyPerHandler(s2.messageHandlers))

(* The connect listener without `reconnectAttempts = 0`.                   *)
onConnect_NoReset(s) ==
    LET s2 == clearReconnectTimer(s)
    IN  resubscribe(s2, mapKeys(s2.messageHandlers))

onConnect(s) ==
    LET s1 == [s EXCEPT !.reconnectAttempts = 0]
        s2 == clearReconnectTimer(s1)
    IN  resubscribe(s2, mapKeys(s2.messageHandlers))

(* The handlers the "message" listener collects for a topic.               *)
RECURSIVE wildcardHandlers(_, _)
wildcardHandlers(m, topic) ==
    IF m = <<>> THEN <<>>
    ELSE LET e == Head(m) IN
         (IF e.pattern = topic THEN <<>>
          ELSE IF topicMatches(e.pattern, topic) THEN e.handlers
          ELSE <<>>) \o wildcardHandlers(Tail(m), topic)

(* The loop without `if (pattern === topic) continue`.                     *)
RECURSIVE matchingHandlers(_, _)
matchingHandlers(m, topic) ==
    IF m = <<>> THEN <<>>
    ELSE (IF topicMatches(Head(m).pattern, topic) THEN Head(m).handlers
          ELSE <<>>) \o matchingHandlers(Tail(m), topic)

(* A collection in Map order: the entry of the topic itself is not taken   *)
(* first.                                                                  *)
collectHandlers_MapOrder(m, topic) == matchingHandlers(m, topic)

collectHandlers_NoSkip(m, topic) ==
    mapGet(m, topic) \o matchingHandlers(m, topic)

(* A lookup that stops at the first entry, in Map order, that matches.     *)
collectHandlers_FirstMatch(m, topic) ==
    LET hits == {i \in DOMAIN m : topicMatches(m[i].pattern, topic)} IN
    IF hits = {} THEN <<>>
    ELSE m[CHOOSE i \in hits : \A j \in hits : i <= j].handlers

collectHandlers(m, topic) == mapGet(m, topic) \o wildcardHandlers(m, topic)

(* handler(topic, payload): the handlers of `failing` throw.               *)
invoke(handler, topic, payload, failing) ==
    [handler |-> handler, topic |-> topic, payload |-> payload,
     threw |-> handler \in failing]

(* A dispatch loop without try / catch: the first throw ends the loop and  *)
(* leaves the listener.                                                    *)
RECURSIVE invokeAll_NoCatch(_, _, _, _, _)
invokeAll_NoCatch(s, hs, topic, payload, failing) ==
    IF hs = <<>> THEN s
    ELSE LET inv == invoke(Head(hs), topic, payload, failing)
             s1  == [s EXCEPT !.eff.invoked = Append(@, inv)]
         IN  IF inv.threw THEN result(s1, "threw")
             ELSE invokeAll_NoCatch(s1, Tail(hs), topic, payload, failing)

(* for (const handler of handlers) try { handler(...) } catch { log }      *)
RECURSIVE invokeAll(_, _, _, _, _)
invokeAll(s, hs, topic, payload, failing) ==
    IF hs = <<>> THEN s
    ELSE LET inv == invoke(Head(hs), topic, payload, failing)
             s1  == [s EXCEPT !.eff.invoked = Append(@, inv)]
         IN  invokeAll(s1, Tail(hs), topic, payload, failing)

onMessage(s, topic, payload, failing) ==
    invokeAll(s, collectHandlers(s.messageHandlers, topic), topic, payload,
              failing)

(* What a handler does when it calls back into the manager: subscribe()    *)
(* of a new function, or disconnect().                                     *)
handlerBody(s, reentry) ==
    IF reentry.does = "subscribe"
    THEN subscribe(s, reentry.pattern, reentry.handler, FALSE)
    ELSE IF reentry.does = "disconnect" THEN disconnect(s)
    ELSE s

(* The handler has not run for this message yet (it calls back the first   *)
(* time it runs).                                                          *)
firstCall(s, handler) ==
    \A k \in DOMAIN s.eff.invoked : s.eff.invoked[k].handler # handler

(* The collecting loop without copies (`handlers` being the array stored   *)
(* in the Map): what was collected is read again at every iteration.       *)
RECURSIVE invokeFrom_Live(_, _, _, _, _, _)
invokeFrom_Live(s, hs, i, topic, payload, reentry) ==
    LET live == collectHandlers(s.messageHandlers, topic) IN
    IF i > Len(live) THEN s
    ELSE LET inv == invoke(live[i], topic, payload, {})
             s1  == [s EXCEPT !.eff.invoked = Append(@, inv)]
             s2  == IF live[i] = reentry.by /\ firstCall(s, live[i])
                    THEN handlerBody(s1, reentry)
                    ELSE s1
         IN  invokeFrom_Live(s2, hs, i + 1, topic, payload, reentry)

(* for (const handler of handlers) ..., from index i on, over the array    *)
(* `handlers` the listener built (a copy: the spread of line 136, the      *)
(* push(...patternHandlers) of line 143); the handler reentry.by calls     *)
(* back into the manager while it runs.                                    *)
RECURSIVE invokeFrom(_, _, _, _, _, _)
invokeFrom(s, hs, i, topic, payload, reentry) ==
    IF i > Len(hs) THEN s
    ELSE LET inv == invoke(hs[i], topic, payload, {})
             s1  == [s EXCEPT !.eff.invoked = Append(@, inv)]
             s2  == IF hs[i] = reentry.by /\ firstCall(s, hs[i])
                    THEN handlerBody(s1, reentry)
                    ELSE s1
         IN  invokeFrom(s2, hs, i + 1, topic, payload, reentry)

(* The "message" listener, with a handler that calls back.                 *)
onMessageReentrant(s, topic, payload, reentry) ==
    invokeFrom([s EXCEPT !.eff.reentry = reentry],
               collectHandlers(s.messageHandlers, topic), 1, topic, payload,
               reentry)

(* A grace timer whose callback does not settle.                           *)
graceTimerFired_NoSettle(s, which) == s

(* The grace timer of one unsettled promise fires: settle().  `which` is   *)
(* the promise: the one connectPromise refers to, or a stale one.          *)
graceTimerFired(s, which) ==
    IF which = "current" THEN [s EXCEPT !.connectPromise = "null"]
    ELSE dropMarker([s EXCEPT !.stalePromises[which] = @ - 1])

----------------------------------------------------------------------------
(* The channel plugin.  `mqtt` is cfg.channels?.mqtt: Undefined, or the    *)
(* raw config.  channel.mqttClient tells whether the module's variable     *)
(* holds a manager; the manager it holds is the one of this module.        *)

(* !mqtt?.brokerUrl                                                        *)
notConfigured(mqtt) ==
    mqtt = Undefined \/ mqtt[1].brokerUrl \in {Undefined, Some("")}

(* mqtt.topics?.inbound ?? "openclaw/inbound", and the same for outbound.  *)
inboundTopic(mqtt) ==
    IF mqtt[1].topics = Undefined THEN DEFAULT_INBOUND
    ELSE mqtt[1].topics[1].inbound
outboundTopic(mqtt) ==
    IF mqtt[1].topics = Undefined THEN DEFAULT_OUTBOUND
    ELSE mqtt[1].topics[1].outbound

(* sendText without its try/catch.                                         *)
sendText_NoCatch(s, mqtt, text, fails) ==
    IF notConfigured(mqtt) THEN result(s, "MQTT not configured")
    ELSE IF s.channel.mqttClient = "null" \/ ~connected(s)
    THEN result(s, "MQTT not connected")
    ELSE LET p == publish(s, outboundTopic(mqtt), text, fails, mqtt[1].qos)
         IN  result(p, IF p.eff.result = "ok" THEN "ok" ELSE "threw")

(* outbound.sendText({text, cfg})                                          *)
sendText(s, mqtt, text, fails) ==
    IF notConfigured(mqtt) THEN result(s, "MQTT not configured")
    ELSE IF s.channel.mqttClient = "null" \/ ~connected(s)
    THEN result(s, "MQTT not connected")
    ELSE LET p == publish(s, outboundTopic(mqtt), text, fails, mqtt[1].qos)
         IN  result(p, CASE p.eff.result = "ok" -> "ok"
                         [] p.eff.result = "NotConnected" -> "MQTT not connected"
                         [] OTHER -> "publish error")

(* startAccount after `await mqttClient.connect()`: the inbound handler is *)
(* subscribed and the returned promise is created, with cleanup listening  *)
(* for the abort event.  A listener added to a signal that has already     *)
(* aborted is never called.                                                *)
startAccountReady(s, fails) ==
    IF s.channel.mqttClient = "null"
    THEN result([s EXCEPT !.channel.start = "threw"], "threw")
    ELSE LET s1 == subscribe(s, s.channel.inbound, "h1", fails) IN
         [s1 EXCEPT !.channel.start = "serving", !.channel.listener = TRUE]

(* The awaited connect() settles: startAccount goes on in the same turn.   *)
resumeStartAccount(s, fails) ==
    IF s.channel.start = "connecting" /\ promiseCount(s) = 0
    THEN startAccountReady(s, fails)
    ELSE s

(* gateway.startAccount(ctx) up to its first await.                        *)
startAccount(s, mqtt, runtimeReady) ==
    IF ~runtimeReady THEN result([s EXCEPT !.channel.start = "threw"], "threw")
    ELSE IF notConfigured(mqtt)
    THEN result([s EXCEPT !.channel.start = "skipped"], "skipped")
    ELSE LET s1 == [s EXCEPT !.channel.mqttClient = "set",
                             !.channel.inbound = inboundTopic(mqtt),
                             !.config = mergeWithEnv(NoEnv, mqtt[1])]
             s2 == [connect(s1, FALSE, 0) EXCEPT !.lastVerb = "connect",
                                                 !.channel.start = "connecting"]
         IN  resumeStartAccount(s2, FALSE)

(* disconnect().finally(...) of cleanup.                                   *)
cleanupDone(s) ==
    [s EXCEPT !.channel.mqttClient = "null", !.channel.start = "resolved"]

(* The same in the cleanup of an earlier startAccount call.                *)
cleanupEarlierDone(s) ==
    [s EXCEPT !.channel.mqttClient = "null", !.channel.earlier = "resolved"]

(* The disconnect() cleanup is waiting for resolves.                       *)
settleCleanup(s) ==
    IF s.channel.start = "stopping" THEN cleanupDone(s)
    ELSE IF s.channel.earlier = "stopping" THEN cleanupEarlierDone(s)
    ELSE s

(* cleanup, the abort listener.                                            *)
cleanup(s) ==
    IF s.channel.mqttClient # "null"
    THEN LET d == [disconnect(s) EXCEPT !.lastVerb = "disconnect",
                                        !.channel.start = "stopping"]
         IN  IF d.eff.result = "noop" THEN cleanupDone(d) ELSE d
    ELSE [s EXCEPT !.channel.start = "resolved"]

(* cleanup of an earlier startAccount call: the same closure, reading the  *)
(* same module variable.                                                   *)
cleanupEarlier(s) ==
    IF s.channel.mqttClient # "null"
    THEN LET d == [disconnect(s) EXCEPT !.lastVerb = "disconnect",
                                        !.channel.earlier = "stopping"]
         IN  IF d.eff.result = "noop" THEN cleanupEarlierDone(d) ELSE d
    ELSE [s EXCEPT !.channel.earlier = "resolved"]

(* `mqttClient = createMqttClient(...)` while the variable refers to the   *)
(* manager of an earlier call: that manager is referred to by nothing any  *)
(* more (what it does from here on is not followed), and the variable      *)
(* refers to a new one.                                                    *)
replaceManager(s) ==
    [s EXCEPT !.channel.detached =
                  IF s.client.st # "null" /\ ~s.manualDisconnect
                  THEN @ + 1 ELSE @,
              !.client = NullClient,
              !.messageHandlers = <<>>,
              !.reconnectAttempts = 0,
              !.reconnectTimer = 0,
              !.connectPromise = "null",
              !.manualDisconnect = FALSE,
              !.timers = 0,
              !.stalePromises = NoStale,
              !.strayEnds = 0,
              !.orphans = 0]

(* gateway.startAccount(ctx) called again, with a context of its own,      *)
(* while the promise of the earlier call is pending.                       *)
startAccountAgain(s, mqtt) ==
    startAccount(
        replaceManager([s EXCEPT !.channel.earlier = "serving",
                                 !.channel.start = "idle",
                                 !.channel.aborted = FALSE,
                                 !.channel.listener = FALSE]),
        mqtt, TRUE)

(* The abort signal fires: its listeners run, once.                        *)
abort(s) ==
    LET s1 == [s EXCEPT !.channel.aborted = TRUE] IN
    IF s1.channel.listener
    THEN cleanup([s1 EXCEPT !.channel.listener = FALSE])
    ELSE s1

---------------------------------------------------------------------------
(* Actions.                                                                *)

(* The manager's variables and what the model keeps of the engine.         *)
sessionVars ==
    <<client, messageHandlers, reconnectAttempts, reconnectTimer,
      connectPromise, manualDisconnect, timers, stalePromises, strayEnds,
      orphans>>

(* No pure function is under evaluation.                                   *)
NoEval == [fn |-> "none"]

(* createMqttClient: the closure's variables as declared.                  *)
InitManager ==
    /\ client = NullClient
    /\ messageHandlers = <<>>
    /\ reconnectAttempts = 0
    /\ reconnectTimer = 0
    /\ connectPromise = "null"
    /\ manualDisconnect = FALSE
    /\ timers = 0
    /\ stalePromises = NoStale
    /\ strayEnds = 0
    /\ orphans = 0
    /\ lastVerb = "none"
    /\ eff = Eff("init")

(* The channel plugin has not started an account.                         *)
(* `earlier` is the promise of a startAccount call that was followed by    *)
(* another one; `detached` counts the managers that were created, hold a   *)
(* live object and are referred to by nothing any more.                    *)
NoChannel ==
    [mqttClient |-> "null", start |-> "idle", aborted |-> FALSE,
     listener |-> FALSE, inbound |-> <<>>, earlier |-> "none",
     detached |-> 0]

Init ==
    /\ InitManager
    /\ scope \in {"session", "registry"}
    /\ config = mergeWithEnv(NoEnv, BrokerOnly)
    /\ channel = NoChannel
    /\ pure = NoEval

(* A manager created with any qos in its raw config.                       *)
InitQos ==
    /\ InitManager
    /\ scope = "qos"
    /\ config \in {mergeWithEnv(NoEnv, [BrokerOnly EXCEPT !.qos = q]) :
                      q \in {Undefined, Some(0), Some(1), Some(2)}}
    /\ channel = NoChannel
    /\ pure = NoEval

(* Outcomes is what reconnect() of the engine may do: {FALSE} returns,     *)
(* {FALSE, TRUE} returns or throws.                                        *)
ConnectWhere(Outcomes) ==
    \E throws \in Outcomes, rnd \in Randoms :
        /\ throws => client.st # "null" /\ ~isConnected /\ connectPromise = "null"
        /\ rnd # 0 => throws /\ reconnectTimer = 0
        /\ Apply([connect(Begin("connect"), throws, rnd) EXCEPT
                  !.lastVerb = "connect"])

Connect == ConnectWhere(BOOLEAN)

Disconnect ==
    Apply([disconnect(Begin("disconnect")) EXCEPT !.lastVerb = "disconnect"])

Publish ==
    \E topic \in Topics, message \in Payloads, fails \in BOOLEAN,
       qos \in QosArgs :
        /\ fails => isConnected
        /\ qos # Undefined => (isConnected /\ scope = "qos")
        /\ Apply(publish(BeginWith("publish", topic, qos), topic, message,
                         fails, qos))

(* The functions a caller registers.                                      *)
NewHandlers ==
    IF scope = "dispatch"
    THEN {HandlerNames[registrations(messageHandlers) + 1]}
    ELSE Handlers

(* The underlying subscribe is made to fail in registry runs; in a run     *)
(* with one registration the two handlers are interchangeable, and h1 is   *)
(* the one registered.                                                     *)
Subscribe ==
    \E topic \in Patterns, handler \in NewHandlers, fails \in BOOLEAN :
        /\ fails => (isConnected /\ scope = "registry")
        /\ Limits.handlers = 1 => handler = "h1"
        /\ Apply(subscribe(BeginWith("subscribe", topic, handler), topic,
                           handler, fails))

(* The inputs an action draws (whether reconnect() throws, the value of     *)
(* Math.random()) are enumerated only where the code reads them.           *)
willSchedule == ~manualDisconnect /\ reconnectTimer = 0

(* The engine reports the held object connected: the manager's "connect"   *)
(* listener runs, then the once("connect") listeners of connect().         *)
OnConnect ==
    /\ client.st = "connecting"
    /\ ~client.ending
    /\ \E fails \in (IF channel.start = "connecting" THEN BOOLEAN ELSE {FALSE}) :
           Apply(resumeStartAccount(
               settleListening(
                   onConnect([Begin("onConnect") EXCEPT
                                 !.client.st = "connected"])),
               fails))

(* A message arrives on the held connection; any of the handlers it is    *)
(* dispatched to may throw.                                                *)
OnMessage ==
    /\ client.st = "connected"
    /\ \E topic \in Topics, payload \in Payloads, failing \in SUBSET Handlers :
        /\ \A h \in failing :
               \E i \in DOMAIN collectHandlers(messageHandlers, topic) :
                   collectHandlers(messageHandlers, topic)[i] = h
        /\ Apply(onMessage(BeginWith("onMessage", topic, payload), topic,
                           payload, failing))

(* An error event: it fails an attempt in progress and leaves an           *)
(* established connection up.                                              *)
OnError ==
    /\ client.st \in {"connecting", "connected", "offline"}
    /\ \E rnd \in Randoms :
        /\ rnd # 0 => willSchedule
        /\ Apply(scheduleReconnect(
            [Begin("onError") EXCEPT
                   !.client.st = IF @ = "connecting" THEN "offline" ELSE @],
               rnd))

OnClose ==
    /\ client.st \in {"connecting", "connected", "offline"}
    /\ \E rnd \in Randoms :
        /\ rnd # 0 => willSchedule
        /\ Apply(scheduleReconnect(
            [Begin("onClose") EXCEPT !.client.st = "offline",
                                     !.client.subs = {}],
            rnd))

OnOffline ==
    /\ client.st \in {"connecting", "connected", "offline"}
    /\ \E rnd \in Randoms :
        /\ rnd # 0 => willSchedule
        /\ Apply(scheduleReconnect(
            [Begin("onOffline") EXCEPT !.client.st = "offline",
                                       !.client.subs = {}],
            rnd))

TimerFireWhere(Outcomes) ==
    /\ timers > 0
    /\ \E throws \in Outcomes, rnd \in Randoms :
        /\ throws => ~manualDisconnect /\ client.st # "null"
        /\ rnd # 0 => throws
        /\ Apply(reconnectTimerFired(Begin("timer"), throws, rnd))

TimerFire == TimerFireWhere(BOOLEAN)

(* Grace timers all run INITIAL_CONNECT_GRACE_MS, so they fire in the      *)
(* order they were armed: the promise connectPromise refers to is the      *)
(* youngest, its timer fires after those of the stale promises.            *)
GraceTimeout ==
    \E which \in {"current", "listening", "timer"} :
        /\ IF which = "current"
           THEN connectPromise # "null" /\ stalePromises = NoStale
           ELSE stalePromises[which] > 0
        /\ Apply(resumeStartAccount(graceTimerFired(Begin("graceTimer"), which),
                                    FALSE))

(* end() of the held object completes (its transport has closed) and its   *)
(* first callback runs.                                                    *)
EndCallbackHeld ==
    /\ client.st = "offline"
    /\ client.ending
    /\ client.cbs > 0
    /\ Apply(settleCleanup(
           endCallback([Begin("endCallback") EXCEPT !.client.cbs = @ - 1])))

(* A further callback of an end() that has already completed.              *)
EndCallbackStray ==
    /\ strayEnds > 0
    /\ Apply(endCallback([Begin("endCallback") EXCEPT !.strayEnds = @ - 1]))

(* A live object nobody holds loses its transport.                         *)
OrphanClose ==
    /\ orphans > 0
    /\ Apply([Begin("orphanClose") EXCEPT !.orphans = @ - 1])

Next ==
    \/ Connect
    \/ Disconnect
    \/ Publish
    \/ Subscribe
    \/ OnConnect
    \/ OnMessage
    \/ OnError
    \/ OnClose
    \/ OnOffline
    \/ TimerFire
    \/ GraceTimeout
    \/ EndCallbackHeld
    \/ EndCallbackStray
    \/ OrphanClose

Spec == Init /\ [][Next]_vars

(* The same program over an engine whose reconnect() never throws: what    *)
(* fails here fails without any help from the engine.                      *)
ConnectNoThrow == ConnectWhere({FALSE})

TimerFireNoThrow == TimerFireWhere({FALSE})

NextNoThrow ==
    \/ ConnectNoThrow
    \/ Disconnect
    \/ Publish
    \/ Subscribe
    \/ OnConnect
    \/ OnMessage
    \/ OnError
    \/ OnClose
    \/ OnOffline
    \/ TimerFireNoThrow
    \/ GraceTimeout
    \/ EndCallbackHeld
    \/ EndCallbackStray
    \/ OrphanClose

SpecNoThrow == Init /\ [][NextNoThrow]_vars

SpecQos == InitQos /\ [][Next]_vars

(* The registry runs on their own.  With one pending end() callback at a   *)
(* time there is no further callback of a completed end() and no object    *)
(* left without an owner.                                                  *)
InitRegistry ==
    /\ InitManager
    /\ scope = "registry"
    /\ config = mergeWithEnv(NoEnv, BrokerOnly)
    /\ channel = NoChannel
    /\ pure = NoEval

NextRegistry ==
    \/ Connect
    \/ Disconnect
    \/ Publish
    \/ Subscribe
    \/ OnConnect
    \/ OnMessage
    \/ OnError
    \/ OnClose
    \/ OnOffline
    \/ TimerFire
    \/ GraceTimeout
    \/ EndCallbackHeld

SpecRegistry == InitRegistry /\ [][NextRegistry]_vars

(* A message arrives and one of the handlers it is dispatched to calls     *)
(* subscribe() with a new function, or disconnect().                       *)
Reentries(callers) ==
    {[by |-> h, does |-> "subscribe", pattern |-> p, handler |-> n] :
        h \in callers, p \in Patterns, n \in NewHandlers}
    \cup {[by |-> h, does |-> "disconnect", pattern |-> <<>>, handler |-> ""] :
             h \in callers}

OnMessageReentrant ==
    /\ client.st = "connected"
    /\ \E topic \in Topics, payload \in Payloads :
        \E reentry \in Reentries(HandlerSet(collectHandlers(messageHandlers,
                                                             topic))) :
            Apply(onMessageReentrant(BeginWith("onMessage", topic, payload),
                                     topic, payload, reentry))

InitDispatch ==
    /\ InitManager
    /\ scope = "dispatch"
    /\ config = mergeWithEnv(NoEnv, BrokerOnly)
    /\ channel = NoChannel
    /\ pure = NoEval

NextDispatch ==
    \/ Connect
    \/ Disconnect
    \/ Publish
    \/ Subscribe
    \/ OnConnect
    \/ OnMessage
    \/ OnMessageReentrant
    \/ OnError
    \/ OnClose
    \/ OnOffline
    \/ TimerFire
    \/ GraceTimeout
    \/ EndCallbackHeld

SpecDispatch == InitDispatch /\ [][NextDispatch]_vars

(* The lifecycle under repeated failure: the counter runs up to            *)
(* MaxBackoffAttempt.                                                      *)
InitBackoff ==
    /\ InitManager
    /\ scope = "backoff"
    /\ config = mergeWithEnv(NoEnv, BrokerOnly)
    /\ channel = NoChannel
    /\ pure = NoEval

SpecBackoff == InitBackoff /\ [][NextRegistry]_vars

(* A timer that was armed fires: the grace timer of every connect() that   *)
(* is still waiting runs its callback.                                     *)
InitLive ==
    /\ InitManager
    /\ scope = "promises"
    /\ config = mergeWithEnv(NoEnv, BrokerOnly)
    /\ channel = NoChannel
    /\ pure = NoEval

SpecLive == InitLive /\ [][Next]_vars /\ WF_vars(GraceTimeout)

(* The plugin: the module is loaded, no account started.                   *)
InitChannel ==
    /\ InitManager
    /\ scope = "channel"
    /\ config = mergeWithEnv(NoEnv, BrokerOnly)
    /\ channel = NoChannel
    /\ pure = NoEval

(* cfg.channels?.mqtt as the gateway hands it over.                        *)
ChannelConfigs ==
    {Undefined,
     Some([BrokerOnly EXCEPT !.brokerUrl = Undefined]),
     Some([BrokerOnly EXCEPT !.brokerUrl = Some("")]),
     Some(BrokerOnly),
     Some([BrokerOnly EXCEPT !.topics = Some(CustomTopics), !.qos = Some(2)])}
Texts == {"hello", ""}

StartAccount ==
    /\ channel.start = "idle"
    /\ \E mqtt \in ChannelConfigs, runtimeReady \in BOOLEAN :
           Apply(startAccount(BeginWith("startAccount", <<>>, mqtt), mqtt,
                              runtimeReady))

Abort ==
    /\ channel.start # "idle"
    /\ ~channel.aborted
    /\ Apply(abort(Begin("abort")))

SendText ==
    \E mqtt \in ChannelConfigs, text \in Texts, fails \in BOOLEAN :
        /\ fails => (isConnected /\ channel.mqttClient # "null"
                        /\ ~notConfigured(mqtt))
        /\ Apply(sendText(BeginWith("sendText", <<>>,
                                    [mqtt |-> mqtt, text |-> text,
                                     fails |-> fails]),
                          mqtt, text, fails))

(* A second account is started while the first is being served, and the   *)
(* gateway aborts the first.                                               *)
InitAccounts ==
    /\ InitManager
    /\ scope = "accounts"
    /\ config = mergeWithEnv(NoEnv, BrokerOnly)
    /\ channel = NoChannel
    /\ pure = NoEval

StartAccountAgain ==
    /\ channel.start = "serving"
    /\ channel.earlier = "none"
    /\ \E mqtt \in {c \in ChannelConfigs : ~notConfigured(c)} :
           Apply(startAccountAgain(BeginWith("startAccount", <<>>, mqtt), mqtt))

AbortEarlier ==
    /\ channel.earlier = "serving"
    /\ Apply(cleanupEarlier(BeginWith("abort", <<>>, "earlier")))

(* The manager is reached through the plugin only; with one disconnect()   *)
(* at most there is no second end() callback and no object without owner.  *)
NextChannel ==
    \/ StartAccount
    \/ Abort
    \/ SendText
    \/ OnConnect
    \/ OnMessage
    \/ OnError
    \/ OnClose
    \/ OnOffline
    \/ TimerFireNoThrow
    \/ GraceTimeout
    \/ EndCallbackHeld

NextAccounts ==
    \/ StartAccount
    \/ StartAccountAgain
    \/ Abort
    \/ AbortEarlier
    \/ SendText
    \/ OnConnect
    \/ OnMessage
    \/ OnError
    \/ OnClose
    \/ OnOffline
    \/ TimerFireNoThrow
    \/ GraceTimeout
    \/ EndCallbackHeld

SpecAccounts == InitAccounts /\ [][NextAccounts]_vars

(* Timers fire, and an end() that was called completes: the transport of   *)
(* the closing object closes and the callback runs.                        *)
SpecChannel ==
    /\ InitChannel
    /\ [][NextChannel]_vars
    /\ WF_vars(GraceTimeout)
    /\ WF_vars(client.ending /\ client.st # "offline" /\ OnClose)
    /\ WF_vars(EndCallbackHeld)

---------------------------------------------------------------------------
(* The pure functions on their own: Init draws the arguments, the action   *)
(* calls the function on them.  topicMatches gets the strings, not the     *)
(* segments they were made of.                                             *)

MatchInputs ==
    [fn : {"topicMatches"}, patternSegs : SegmentLists,
     topicSegs : SegmentLists, done : {FALSE}, value : {FALSE}]

(* Two calls of getBackoffDelay, each with its own Math.random().          *)
BackoffInputs ==
    [fn : {"getBackoffDelay"}, a : 1..MaxBackoffAttempt,
     rndA : 0..(JitterSteps - 1), b : 1..MaxBackoffAttempt,
     rndB : 0..(JitterSteps - 1), done : {FALSE}, delayA : {0}, delayB : {0}]

(* process.env and the raw config handed to mergeWithEnv: a variable is    *)
(* unset, set to the empty string or set to a value; a field is passed or  *)
(* not.                                                                    *)
EnvValues == {Undefined, Some(""), Some("E")}
CfgValues == {Undefined, Some("C")}
MergeInputs ==
    [fn : {"mergeWithEnv"},
     env : [BROKER_URL : EnvValues, USERNAME : EnvValues, PASSWORD : EnvValues,
            CLIENT_ID : EnvValues, CA_PATH : {Undefined, Some("E")}],
     cfg : [brokerUrl : CfgValues, username : CfgValues, password : CfgValues,
            clientId : CfgValues, topics : {Undefined, Some(CustomTopics)},
            qos : {Undefined, Some(0), Some(2)},
            tls : {Undefined, Some(CustomTls)}],
     done : {FALSE}, merged : {mergeWithEnv(NoEnv, BrokerOnly)}]

InitPure ==
    /\ InitManager
    /\ scope = "pure"
    /\ config = mergeWithEnv(NoEnv, BrokerOnly)
    /\ channel = NoChannel
    /\ pure \in MatchInputs \cup BackoffInputs \cup MergeInputs

EvalTopicMatches ==
    /\ pure.fn = "topicMatches"
    /\ ~pure.done
    /\ pure' = [pure EXCEPT
                   !.done = TRUE,
                   !.value = topicMatches(join(pure.patternSegs),
                                          join(pure.topicSegs))]
    /\ UNCHANGED <<sessionVars, lastVerb, eff, scope, config, channel>>

EvalBackoff ==
    /\ pure.fn = "getBackoffDelay"
    /\ ~pure.done
    /\ pure' = [pure EXCEPT
                   !.done = TRUE,
                   !.delayA = getBackoffDelayAt(pure.a, pure.rndA, JitterSteps),
                   !.delayB = getBackoffDelayAt(pure.b, pure.rndB, JitterSteps)]
    /\ UNCHANGED <<sessionVars, lastVerb, eff, scope, config, channel>>

EvalMergeWithEnv ==
    /\ pure.fn = "mergeWithEnv"
    /\ ~pure.done
    /\ pure' = [pure EXCEPT
                   !.done = TRUE,
                   !.merged = mergeWithEnv(pure.env, pure.cfg)]
    /\ UNCHANGED <<sessionVars, lastVerb, eff, scope, config, channel>>

NextPure ==
    \/ EvalTopicMatches
    \/ EvalBackoff
    \/ EvalMergeWithEnv

SpecPure == InitPure /\ [][NextPure]_vars

---------------------------------------------------------------------------
(* Vocabulary of the properties.                                           *)

CallCount(e, op) == Cardinality({i \in DOMAIN e.calls : e.calls[i].op = op})

SubscribeCount(e, topic) ==
    Cardinality({i \in DOMAIN e.calls :
                    e.calls[i].op = "subscribe" /\ e.calls[i].topic = topic})

(* The step started no underlying attempt.                                 *)
NoAttemptCalls(e) == CallCount(e, "open") = 0 /\ CallCount(e, "reconnect") = 0

(* The held object is live: its transport is up or being set up.           *)
HeldLive == client.st \in {"connecting", "connected"}

(* An underlying attempt is in flight: on the held object (started, or     *)
(* deferred until its end() completes) or on an object no longer held.     *)
AttemptInFlight ==
    \/ client.st = "connecting"
    \/ client.ending /\ client.deferred
    \/ orphans > 0

InvokedCount(e, h) ==
    Cardinality({i \in DOMAIN e.invoked : e.invoked[i].handler = h})

(* The registrations of handler h under patterns that match the topic.     *)
MatchingRegistrations(m, topic, h) ==
    Cardinality({ij \in (DOMAIN m) \X (1..MaxHandlers) :
                    /\ ij[2] \in DOMAIN m[ij[1]].handlers
                    /\ m[ij[1]].handlers[ij[2]] = h
                    /\ topicMatches(m[ij[1]].pattern, topic)})

---------------------------------------------------------------------------
(* C1: while an underlying connect attempt is in flight on the held        *)
(* object, a connect() call makes no underlying open and no reconnect()    *)
(* call.  Fails: the in-flight marker is dropped when the grace timer      *)
(* fires (and by disconnect()), while the attempt is still in flight.      *)
C1_ConnectCollapses ==
    [][(eff'.act = "connect" /\ client.st = "connecting" /\ ~client.ending)
          => NoAttemptCalls(eff')]_vars

(* C2: from a disconnect() call until the next connect() call no step      *)
(* arms a reconnect timer, advances the attempt counter, or calls the      *)
(* underlying reconnect primitive or open.  Fails: a disconnect() that     *)
(* finds no connection object returns without setting the flag or          *)
(* clearing a pending timer.                                               *)
C2_NoReconnectAfterDisconnect ==
    [][(lastVerb = "disconnect" /\ eff'.act # "connect")
          => /\ NoAttemptCalls(eff')
             /\ reconnectAttempts' <= reconnectAttempts
             /\ timers' <= timers
             /\ (reconnectTimer = 0 => reconnectTimer' = 0)]_vars

(* C3: the connect listener subscribes every pattern of the registry       *)
(* exactly once on the connection, and nothing else.                       *)
C3_ResubscribeEachOnce ==
    eff.act = "onConnect" =>
        /\ \A p \in Patterns :
               SubscribeCount(eff, p) =
                   IF mapHas(messageHandlers, p) THEN 1 ELSE 0
        /\ Len(eff.calls) = Len(messageHandlers)
        /\ client.subs = {messageHandlers[i].pattern : i \in DOMAIN messageHandlers}

(* A connected event that resolved no connect() call (a reconnect), with a *)
(* pattern that has two handlers.                                          *)
C3_Witness ==
    /\ eff.act = "onConnect"
    /\ eff.result = "none"
    /\ \E i \in DOMAIN messageHandlers : Len(messageHandlers[i].handlers) = 2
    /\ Len(eff.calls) = 1

(* C4: once connect() was called and no disconnect() after it, the session *)
(* is never left not connected, not manually disconnected, without a       *)
(* pending reconnect timer and without an underlying attempt in flight (a  *)
(* connect() call that has not returned yet counts as one).  Fails: the    *)
(* completion of an earlier disconnect() drops the object the later        *)
(* connect() asked to reconnect.                                           *)
C4_ReconnectKeepsGoing ==
    lastVerb = "connect" =>
        \/ isConnected
        \/ manualDisconnect
        \/ reconnectTimer # 0
        \/ AttemptInFlight
        \/ connectPromise # "null"

(* C5: at most one reconnect timeout is armed, and it is the one           *)
(* reconnectTimer refers to: no timer is armed while one is pending, none  *)
(* is forgotten without being cleared or fired.                            *)
C5_OneTimer ==
    /\ timers <= 1
    /\ (reconnectTimer # 0) <=> (timers = 1)

(* A scheduling request (a close event) that arrived while the timer of    *)
(* the second attempt was pending, and armed nothing.                      *)
C5_Witness ==
    /\ eff.act = "onClose"
    /\ eff.result = "none"
    /\ ~manualDisconnect
    /\ timers = 1
    /\ reconnectAttempts = 2

(* C6: a pending reconnect timer and an in-flight underlying attempt never *)
(* coexist.  Fails: connect() reconnects the held object and leaves the    *)
(* pending timer armed.                                                    *)
C6_TimerExcludesAttempt ==
    ~(reconnectTimer # 0 /\ client.st = "connecting" /\ ~client.ending)

(* C7: at most one underlying connection object is live.  Fails: the       *)
(* completion callback of end() drops an object that a connect() after the *)
(* disconnect() brought back to life, and the next connect() opens another.*)
C7_OneLiveObject ==
    orphans + (IF HeldLive THEN 1 ELSE 0) <= 1

(* C8: publish() on a connection that is not connected fails with the      *)
(* not-connected error, calls nothing on the engine and changes no session *)
(* state.                                                                  *)
C8_PublishNotConnected ==
    [][(eff'.act = "publish" /\ ~isConnected)
          => /\ eff'.result = "NotConnected"
             /\ eff'.calls = <<>>
             /\ UNCHANGED sessionVars]_vars

(* publish() refused while a reconnect is pending.                         *)
C8_Witness ==
    /\ eff.act = "publish"
    /\ eff.result = "NotConnected"
    /\ client.st = "offline"
    /\ reconnectTimer # 0

(* C9: once a disconnect() has resolved the registry is empty, in every    *)
(* state it is called in, and no handler is invoked until the next         *)
(* connect().  Fails: disconnect() returns at once when no connection      *)
(* object is held and leaves the registry as it is.                        *)
C9_RegistryClearedByDisconnect ==
    /\ (eff.act = "endCallback" \/ (eff.act = "disconnect" /\ eff.result = "noop"))
           => messageHandlers = <<>>
    /\ (lastVerb = "disconnect" /\ eff.act = "onMessage" /\ ~client.ending)
           => eff.invoked = <<>>

(* C10: a message step invokes each handler once per registration under a  *)
(* matching pattern, no other handler, each with the message's topic and   *)
(* payload.                                                                *)
C10_DispatchExactlyOnce ==
    [][eff'.act = "onMessage"
          => /\ \A h \in Handlers :
                    InvokedCount(eff', h) =
                        MatchingRegistrations(messageHandlers, eff'.topic, h)
             /\ \A i \in DOMAIN eff'.invoked :
                    /\ eff'.invoked[i].topic = eff'.topic
                    /\ eff'.invoked[i].payload = eff'.arg]_vars

(* A message on a/b with both the literal a/b and the wildcard a/+         *)
(* registered: two invocations.                                            *)
C10_Witness ==
    /\ eff.act = "onMessage"
    /\ eff.topic = TopicAB
    /\ mapHas(messageHandlers, TopicAB)
    /\ mapHas(messageHandlers, PatternAPlus)
    /\ Len(eff.invoked) = 2

(* C11: handlers registered on one pattern accumulate in registration      *)
(* order (subscribe appends to what the pattern already has), and every    *)
(* dispatch on a topic the pattern matches invokes all of them, one after  *)
(* the other in that order.                                                *)
C11_SamePatternInOrder ==
    [][/\ eff'.act = "subscribe" =>
              mapGet(messageHandlers', eff'.topic) =
                  Append(mapGet(messageHandlers, eff'.topic), eff'.arg)
       /\ eff'.act = "onMessage" =>
              \A i \in DOMAIN messageHandlers :
                  topicMatches(messageHandlers[i].pattern, eff'.topic) =>
                      \E k \in 0..Len(eff'.invoked) :
                          \A j \in DOMAIN messageHandlers[i].handlers :
                              /\ k + j \in DOMAIN eff'.invoked
                              /\ eff'.invoked[k + j].handler =
                                     messageHandlers[i].handlers[j]]_vars

(* h1 then h2 registered on a/+, and a message on a/b dispatched to both.  *)
C11_Witness ==
    /\ eff.act = "onMessage"
    /\ eff.topic = TopicAB
    /\ mapGet(messageHandlers, PatternAPlus) = <<"h1", "h2">>
    /\ Len(eff.invoked) = 2
    /\ eff.invoked[1].handler = "h1"
    /\ eff.invoked[2].handler = "h2"

(* C12: a handler that throws during dispatch stops nothing: every         *)
(* collected handler is invoked, the error does not leave the listener,    *)
(* and the session state is as before the message.                         *)
C12_HandlerFailureIsolated ==
    [][eff'.act = "onMessage"
          => /\ Len(eff'.invoked) =
                    Len(collectHandlers(messageHandlers, eff'.topic))
             /\ eff'.result # "threw"
             /\ UNCHANGED sessionVars]_vars

(* The first of two handlers threw and the second was still invoked.       *)
C12_Witness ==
    /\ eff.act = "onMessage"
    /\ Len(eff.invoked) = 2
    /\ eff.invoked[1].threw
    /\ ~eff.invoked[2].threw

(* C13: subscribe() appends the handler to the registry; it calls the      *)
(* underlying subscribe, once and for its pattern, exactly when the        *)
(* connection is connected; and whenever the connection is connected an    *)
(* underlying subscribe has been issued on it for every registered pattern *)
(* (by subscribe() itself or by the connect listener).                     *)
C13_SubscribeQueuedAndApplied ==
    [][/\ eff'.act = "subscribe" =>
              /\ mapGet(messageHandlers', eff'.topic) =
                     Append(mapGet(messageHandlers, eff'.topic), eff'.arg)
              /\ eff'.calls = IF isConnected
                              THEN <<[op |-> "subscribe", topic |-> eff'.topic]>>
                              ELSE <<>>
       /\ isConnected' =>
              \A i \in DOMAIN messageHandlers' :
                  messageHandlers'[i].pattern \in client'.subs]_vars

(* A pattern registered with no connection, then applied by the connect    *)
(* listener; and one registered while connected.                           *)
C13_Witness ==
    /\ isConnected
    /\ eff.act = "subscribe"
    /\ eff.topic = TopicAB
    /\ Len(eff.calls) = 1
    /\ mapHas(messageHandlers, PatternAPlus)
    /\ messageHandlers[1].pattern = PatternAPlus
    /\ client.subs = {TopicAB, PatternAPlus}

(* C14: only a connected event and disconnect() lower the attempt counter  *)
(* (error, close and offline events and the timers never do); every        *)
(* connected event of the held connection leaves it at zero; and it is     *)
(* never advanced with the manual-disconnect flag set.                     *)
C14_AttemptCounter ==
    [][/\ reconnectAttempts' < reconnectAttempts =>
              eff'.act \in {"onConnect", "disconnect"}
       /\ eff'.act = "onConnect" => reconnectAttempts' = 0
       /\ reconnectAttempts' > reconnectAttempts =>
              /\ reconnectAttempts' = reconnectAttempts + 1
              /\ ~manualDisconnect'
              /\ eff'.act = "connect" \/ ~manualDisconnect]_vars

(* A connected event of a reconnect: no connect() call was waiting for it. *)
C14_Witness ==
    /\ eff.act = "onConnect"
    /\ reconnectAttempts = 0
    /\ eff.result = "none"
    /\ lastVerb = "connect"

(* C20: connect() on a connected connection returns at once: no open, no   *)
(* reconnect, and the connection object, registry, attempt counter, timer, *)
(* in-flight marker and manual-disconnect flag are as before.              *)
C20_ConnectIdempotent ==
    [][(eff'.act = "connect" /\ isConnected)
          => /\ eff'.result = "already"
             /\ eff'.calls = <<>>
             /\ UNCHANGED sessionVars]_vars

(* connect() on a connected connection whose registry is not empty.        *)
C20_Witness ==
    /\ eff.act = "connect"
    /\ eff.result = "already"
    /\ isConnected
    /\ messageHandlers # <<>>

(* What the properties of topicMatches say of an evaluation: Matched is    *)
(* the value returned for the pattern and topic made of the segments       *)
(* PatSegs and TopSegs.                                                    *)
MatchDone == pure.fn = "topicMatches" /\ pure.done
PatSegs == pure.patternSegs
TopSegs == pure.topicSegs
Matched == pure.value
HasWildcardChar(segs) == \E i \in DOMAIN segs : segs[i] \in {<<"+">>, <<"#">>}
HashOnlyLast(segs) ==
    /\ segs[Len(segs)] = <<"#">>
    /\ \A i \in 1..(Len(segs) - 1) : segs[i] # <<"#">>
SegmentMatches(p, s) == p = <<"+">> \/ p = s

(* C15: for a pattern with neither '+' nor '#', topicMatches is true       *)
(* exactly when pattern and topic are the same string.                     *)
C15_ExactWithoutWildcards ==
    (MatchDone /\ ~HasWildcardChar(PatSegs)) => (Matched <=> PatSegs = TopSegs)

(* a/b against a/b: true by equality alone.                                *)
C15_Witness ==
    /\ MatchDone
    /\ PatSegs = <<<<"a">>, <<"b">>>>
    /\ TopSegs = PatSegs
    /\ Matched

(* C16: "#" matches every topic, and a pattern of k prefix segments and a  *)
(* final '#' matches exactly the topics of at least k segments whose first *)
(* k segments match the prefix, each by '+' or by equality; the parent     *)
(* level itself (k segments) included.                                     *)
C16_MultiLevelWildcard ==
    (MatchDone /\ HashOnlyLast(PatSegs)) =>
        (Matched <=>
            /\ Len(TopSegs) >= Len(PatSegs) - 1
            /\ \A i \in 1..(Len(PatSegs) - 1) :
                   SegmentMatches(PatSegs[i], TopSegs[i]))

(* a/# against a: the parent level matches.                                *)
C16_Witness ==
    /\ MatchDone
    /\ PatSegs = <<<<"a">>, <<"#">>>>
    /\ TopSegs = <<<<"a">>>>
    /\ Matched

(* C17: a pattern with no '#' segment matches exactly the topics with the  *)
(* same number of segments, each pattern segment being '+' or equal to the *)
(* topic segment at its place.                                             *)
C17_SingleLevelWildcard ==
    (MatchDone /\ \A i \in DOMAIN PatSegs : PatSegs[i] # <<"#">>) =>
        (Matched <=>
            /\ Len(TopSegs) = Len(PatSegs)
            /\ \A i \in DOMAIN PatSegs : SegmentMatches(PatSegs[i], TopSegs[i]))

(* a/+ against a: the '+' has no segment to match.                         *)
C17_Witness ==
    /\ MatchDone
    /\ PatSegs = <<<<"a">>, <<"+">>>>
    /\ TopSegs = <<<<"a">>>>
    /\ ~Matched

(* What the properties of getBackoffDelay say of an evaluation.            *)
BackoffDone == pure.fn = "getBackoffDelay" /\ pure.done
ClaimedBase(attempt) ==
    IF 5000 * Pow2(attempt - 1) < 60000 THEN 5000 * Pow2(attempt - 1) ELSE 60000

(* C18: for every attempt >= 1 the delay lies in [base, 1.2 * base] with   *)
(* base = min(5000 * 2^(attempt-1), 60000), and never exceeds 72000 ms.    *)
C18_DelayWithinJitter ==
    BackoffDone =>
        /\ ClaimedBase(pure.a) <= pure.delayA
        /\ 10 * pure.delayA <= 12 * ClaimedBase(pure.a)
        /\ pure.delayA <= 72000

(* Attempt 6, past the cap, with the largest jitter drawn.                 *)
C18_Witness ==
    /\ BackoffDone
    /\ pure.a = 6
    /\ pure.rndA = JitterSteps - 1
    /\ pure.delayA > 60000

(* C19: for attempts a < b whose bases are not both at the cap, every      *)
(* delay of attempt a is at most every delay of attempt b.                 *)
C19_DelayNonDecreasing ==
    (/\ BackoffDone
     /\ pure.a < pure.b
     /\ ~(ClaimedBase(pure.a) = 60000 /\ ClaimedBase(pure.b) = 60000))
        => pure.delayA <= pure.delayB

(* Attempt 4 with the largest jitter against attempt 5, the first at the   *)
(* cap, with none.                                                         *)
C19_Witness ==
    /\ BackoffDone
    /\ pure.a = 4
    /\ pure.rndA = JitterSteps - 1
    /\ pure.b = 5
    /\ pure.rndB = 0
    /\ pure.delayA > 40000
    /\ pure.delayB = 60000

Waiting == promiseCount(Begin("none")) > 0
ListenerWaiting == connectPromise = "listening" \/ stalePromises.listening > 0
PromiseCreated == eff.act \in {"connect", "timer"} /\ eff.result = "pending"

(* C21: a connect() never ends in an error; the promises waiting for the   *)
(* connected event of the held object are all resolved by the step that    *)
(* delivers it; and every waiting promise is resolved in the end, by that  *)
(* event or by its grace timer: unless connect() keeps creating promises   *)
(* for ever, no call is left waiting.                                      *)
C21_ConnectReturns ==
    /\ [](eff.act = "connect" =>
             eff.result \in {"already", "shared", "resolved", "pending"})
    /\ [](eff.act = "onConnect" => ~ListenerWaiting)
    /\ ([]<>(~Waiting) \/ []<>PromiseCreated)

(* A connect() resolved by its grace timer: the broker never answered.     *)
C21_Witness ==
    /\ eff.act = "graceTimer"
    /\ ~Waiting
    /\ lastVerb = "connect"
    /\ client.st \in {"connecting", "offline"}
    /\ ~manualDisconnect

(* C22: isConnected() is true exactly when a connection object is held and *)
(* its transport is connected, whatever the manual-disconnect flag, the    *)
(* timer and the in-flight marker are; it is false once a disconnect() has *)
(* resolved and while no connection object exists.                         *)
C22_IsConnectedIsTransport ==
    /\ isConnected <=> (client.st # "null" /\ client.st = "connected")
    /\ eff.act = "endCallback" => ~isConnected
    /\ (eff.act = "disconnect" /\ eff.result = "noop") => ~isConnected
    /\ lastVerb = "none" => ~isConnected

(* Connected with the manual-disconnect flag set: a disconnect() whose     *)
(* close has not completed.                                                *)
C22_Witness ==
    /\ isConnected
    /\ manualDisconnect
    /\ client.ending
    /\ eff.act = "disconnect"

RegistryKeys(m) == {m[i].pattern : i \in DOMAIN m}

(* C23: a subscribe() whose underlying subscribe fails returns normally    *)
(* and registers the handler all the same; a registered pattern leaves the *)
(* registry only when a disconnect completes; and the connect listener     *)
(* subscribes every registered pattern, the failed ones included.          *)
C23_SubscribeFailureNotSurfaced ==
    [][/\ eff'.act = "subscribe" =>
              /\ eff'.result \in {"none", "subscribed", "subscribeFailed"}
              /\ mapGet(messageHandlers', eff'.topic) =
                     Append(mapGet(messageHandlers, eff'.topic), eff'.arg)
       /\ eff'.act # "endCallback" =>
              RegistryKeys(messageHandlers) \subseteq RegistryKeys(messageHandlers')
       /\ eff'.act = "onConnect" =>
              \A p \in RegistryKeys(messageHandlers) : SubscribeCount(eff', p) = 1
      ]_vars

(* A subscribe() whose underlying subscribe failed: the handler is in.     *)
C23_Witness ==
    /\ eff.act = "subscribe"
    /\ eff.result = "subscribeFailed"
    /\ mapGet(messageHandlers, eff.topic) = <<eff.arg>>

AsMap(m) == {<<m[i].pattern, m[i].handlers>> : i \in DOMAIN m}

(* C24: from any state, subscribing two distinct patterns in either order  *)
(* gives the same registry (as a mapping), the same underlying             *)
(* subscriptions, now and after the next connected event, and the same set *)
(* of handlers dispatched to for every topic.                              *)
C24_SubscribeOrderInsensitive ==
    \A p1 \in Patterns, p2 \in Patterns, h1 \in Handlers, h2 \in Handlers :
        p1 # p2 =>
            LET s0 == Begin("subscribe")
                a  == subscribe(subscribe(s0, p1, h1, FALSE), p2, h2, FALSE)
                b  == subscribe(subscribe(s0, p2, h2, FALSE), p1, h1, FALSE)
            IN  /\ AsMap(a.messageHandlers) = AsMap(b.messageHandlers)
                /\ a.client.subs = b.client.subs
                /\ onConnect(a).client.subs = onConnect(b).client.subs
                /\ \A topic \in Topics :
                       HandlerSet(collectHandlers(a.messageHandlers, topic)) =
                       HandlerSet(collectHandlers(b.messageHandlers, topic))

(* Both patterns registered, the wildcard first, on a live connection.     *)
C24_Witness ==
    /\ eff.act = "subscribe"
    /\ isConnected
    /\ Len(messageHandlers) = 2
    /\ messageHandlers[1].pattern = PatternAPlus
    /\ messageHandlers[1].handlers # messageHandlers[2].handlers
    /\ eff.result = "subscribed"

MergeDone == pure.fn = "mergeWithEnv" /\ pure.done
Precedence(envValue, passed) == IF envValue # Undefined THEN envValue ELSE passed

(* C25: mergeWithEnv gives brokerUrl, username, password and clientId the  *)
(* environment variable's value whenever the variable is defined, and the  *)
(* passed value otherwise (brokerUrl: the empty string when neither        *)
(* exists); topics and qos are the passed ones, and openclaw/inbound,      *)
(* openclaw/outbound and qos 1 when not passed.                            *)
C25_MergePrecedence ==
    MergeDone =>
        LET env == pure.env
            cfg == pure.cfg
            out == pure.merged
        IN  /\ out.brokerUrl =
                   Precedence(env.BROKER_URL,
                              IF cfg.brokerUrl # Undefined THEN cfg.brokerUrl
                              ELSE Some(""))
            /\ out.username = Precedence(env.USERNAME, cfg.username)
            /\ out.password = Precedence(env.PASSWORD, cfg.password)
            /\ out.clientId = Precedence(env.CLIENT_ID, cfg.clientId)
            /\ out.topics =
                   IF cfg.topics # Undefined THEN cfg.topics
                   ELSE Some([inbound |-> <<"openclaw", "/", "inbound">>,
                              outbound |-> <<"openclaw", "/", "outbound">>])
            /\ out.qos = IF cfg.qos # Undefined THEN cfg.qos ELSE Some(1)

(* A merge where the environment and the passed config both name the       *)
(* broker, only the config names the user, and topics and qos are left out.*)
C25_Witness ==
    /\ MergeDone
    /\ pure.env.BROKER_URL = Some("E")
    /\ pure.cfg.brokerUrl = Some("C")
    /\ pure.merged.brokerUrl = Some("E")
    /\ pure.env.USERNAME = Undefined
    /\ pure.merged.username = Some("C")
    /\ pure.cfg.topics = Undefined
    /\ pure.cfg.qos = Undefined
    /\ pure.merged.qos = Some(1)

(* C26: a publish() without a qos argument hands the engine the configured *)
(* qos, one with a qos argument hands it that argument; the underlying     *)
(* subscribes always carry the configured qos.                             *)
C26_DefaultQos ==
    /\ (eff.act = "publish" /\ eff.calls # <<>>) =>
           eff.qos = IF eff.arg = Undefined THEN config.qos ELSE eff.arg
    /\ (eff.act \in {"subscribe", "onConnect"} /\ eff.calls # <<>>) =>
           eff.qos = config.qos

(* A publish() with qos 0 on a manager configured with qos 2.              *)
C26_Witness ==
    /\ eff.act = "publish"
    /\ eff.result = "ok"
    /\ config.qos = Some(2)
    /\ eff.arg = Some(0)
    /\ eff.qos = Some(0)

Sent == eff.act = "sendText"
SentConfig == eff.arg.mqtt
Published(topic, text) ==
    /\ eff.calls = <<[op |-> "publish", topic |-> topic]>>
    /\ eff.message = text

(* C27: sendText never throws: it returns "MQTT not configured" when the   *)
(* config names no broker, otherwise "MQTT not connected" when the plugin  *)
(* holds no client or the client is not connected, otherwise the publish   *)
(* error when the publish fails, and ok exactly when the text was          *)
(* published as given to the configured outbound topic (openclaw/outbound  *)
(* when none is configured); nothing is published in the first two cases.  *)
C27_SendTextReportsFailure ==
    Sent =>
        LET unconfigured ==
                \/ SentConfig = Undefined
                \/ SentConfig[1].brokerUrl = Undefined
                \/ SentConfig[1].brokerUrl = Some("")
            outbound ==
                IF SentConfig[1].topics = Undefined
                THEN <<"openclaw", "/", "outbound">>
                ELSE SentConfig[1].topics[1].outbound
        IN  /\ eff.result \in {"MQTT not configured", "MQTT not connected",
                                "publish error", "ok"}
            /\ unconfigured <=> eff.result = "MQTT not configured"
            /\ (~unconfigured /\ (channel.mqttClient = "null" \/ ~isConnected))
                   <=> eff.result = "MQTT not connected"
            /\ eff.result \in {"MQTT not configured", "MQTT not connected"}
                   => eff.calls = <<>>
            /\ eff.result = "publish error"
                   => eff.arg.fails /\ Published(outbound, eff.arg.text)
            /\ eff.result = "ok"
                   => ~eff.arg.fails /\ Published(outbound, eff.arg.text)

(* A sendText whose publish failed: the failure came back as a value.      *)
C27_Witness ==
    /\ Sent
    /\ eff.arg.fails
    /\ eff.result = "publish error"
    /\ eff.arg.text = "hello"
    /\ eff.message = "hello"

Started == channel.start \in {"connecting", "serving", "stopping"}
Resolved == channel.start = "resolved"

(* C28: once the abort signal has fired on a started account, the client   *)
(* is eventually disconnected and the promise startAccount returned        *)
(* eventually resolves, and it resolves only after the disconnect has      *)
(* completed.  Fails: an abort that fires while startAccount awaits        *)
(* connect() finds no listener, and the listener added afterwards is       *)
(* never called.                                                           *)
C28_AbortResolves ==
    /\ [](Resolved => (channel.aborted /\ client.st = "null"
                          /\ channel.mqttClient = "null"))
    /\ (channel.aborted /\ Started) ~> Resolved

(* C29: an error, close or offline event arms one timer and advances the   *)
(* counter by one when no timer is pending and the session is not manually *)
(* disconnected; with a timer pending it leaves counter, timer and delay   *)
(* as they are, so the events of one connection loss arm one timer.        *)
C29_SchedulingIdempotent ==
    [][eff'.act \in {"onError", "onClose", "onOffline"} =>
          IF reconnectTimer # 0 \/ manualDisconnect
          THEN UNCHANGED <<reconnectAttempts, reconnectTimer, timers>>
          ELSE /\ reconnectAttempts' = reconnectAttempts + 1
               /\ timers' = 1
               /\ reconnectTimer' # 0]_vars

(* An offline event after the event that armed the first timer.            *)
C29_Witness ==
    /\ eff.act = "onOffline"
    /\ eff.result = "none"
    /\ ~manualDisconnect
    /\ reconnectTimer # 0
    /\ reconnectAttempts = 1

C33_DisconnectHeld ==
    [][/\ (eff'.act = "disconnect" /\ client.st # "null") =>
              /\ manualDisconnect'
              /\ reconnectTimer' = 0
              /\ timers' = IF reconnectTimer # 0 THEN timers - 1 ELSE timers
              /\ reconnectAttempts' = 0
              /\ connectPromise' = "null"
              /\ eff'.calls = <<[op |-> "end", topic |-> <<>>]>>
              /\ eff'.result = "pending"
              /\ client'.st = client.st
              /\ client'.ending
       /\ eff'.act = "endCallback" =>
              /\ eff'.result = "resolved"
              /\ client' = NullClient
      ]_vars

(* A disconnect() during an attempt: the marker of the connect() that is   *)
(* waiting was dropped, and the close is under way.                        *)
C33_Witness ==
    /\ eff.act = "disconnect"
    /\ eff.result = "pending"
    /\ manualDisconnect
    /\ client.ending
    /\ client.st = "connecting"
    /\ stalePromises.listening = 1
    /\ connectPromise = "null"

(* C34: a disconnect() with no connection object held resolves at once     *)
(* and changes nothing: flag, timer, counter, marker, registry and the      *)
(* engine are as before.                                                   *)
C34_DisconnectNoop ==
    [][(eff'.act = "disconnect" /\ client.st = "null") =>
          /\ eff'.result = "noop"
          /\ eff'.calls = <<>>
          /\ UNCHANGED <<client, messageHandlers, reconnectAttempts,
                         reconnectTimer, connectPromise, manualDisconnect,
                         timers, stalePromises, strayEnds, orphans>>]_vars

(* A no-op disconnect() that left a handler in the registry and the flag   *)
(* clear.                                                                  *)
C34_Witness ==
    /\ eff.act = "disconnect"
    /\ eff.result = "noop"
    /\ messageHandlers # <<>>
    /\ ~manualDisconnect
    /\ client = NullClient

(* C35: a pending reconnect timer implies a counter of at least one and a  *)
(* clear manual flag; a set manual flag implies no timer and a counter of  *)
(* zero.                                                                   *)
C35_TimerCounterFlag ==
    /\ reconnectTimer # 0 => (reconnectAttempts >= 1 /\ ~manualDisconnect)
    /\ manualDisconnect => (reconnectTimer = 0 /\ reconnectAttempts = 0)

(* The flag set by a disconnect() that cancelled a timer.                  *)
C35_Witness ==
    /\ manualDisconnect
    /\ eff.act = "disconnect"
    /\ eff.result = "pending"
    /\ client.st = "offline"
    /\ reconnectTimer = 0
    /\ reconnectAttempts = 0

(* C36: reconnect() of the engine is never called on a connected           *)
(* connection.  Fails: the timer armed by an error event that left the     *)
(* connection up calls reconnect() on it when it fires.                    *)
C36_NoReconnectWhenConnected ==
    [][CallCount(eff', "reconnect") > 0 => client.st # "connected"]_vars

(* C37: the completion of a disconnect() leaves the session that a later   *)
(* connect() started alone: an end callback that runs with the manual flag *)
(* clear (a connect() came after the disconnect()) keeps the connection    *)
(* object held and the registry as they are.  Fails: the callback acts on  *)
(* whatever `client` and the registry are when it runs.                    *)
C37_TeardownOwnObjectOnly ==
    [][(eff'.act = "endCallback" /\ ~manualDisconnect) =>
          /\ client'.st = client.st
          /\ messageHandlers' = messageHandlers]_vars

(* C38: the settle() of an earlier connect() (its grace timer firing while *)
(* a later connect() is in flight) leaves the in-flight marker of the      *)
(* later one in place.  Fails: settle() sets connectPromise = null         *)
(* whichever promise the variable refers to.                               *)
C38_MarkerOfLatestAttempt ==
    [][(eff'.act = "graceTimer" /\ stalePromises # NoStale) =>
          connectPromise' = connectPromise]_vars

(* C31: a reconnect is scheduled with the delay of the counter after its   *)
(* increment: the step that arms the timer raises reconnectAttempts by one *)
(* to k and arms it with a delay within [base, 1.2 * base] for             *)
(* base = min(5000 * 2^(k-1), 60000); the connected event and a disconnect *)
(* of a held object reset the counter to zero, and no other step changes   *)
(* it, so that k counts the reconnects scheduled since the last of them.   *)
ArmsTimer ==
    reconnectTimer' # 0 /\ (reconnectTimer = 0 \/ eff'.act = "timer")
DoublingBase(k) ==
    IF k >= 5 THEN MAX_RECONNECT_MS
    ELSE IF k = 4 THEN 8 * DEFAULT_RECONNECT_MS
    ELSE IF k = 3 THEN 4 * DEFAULT_RECONNECT_MS
    ELSE IF k = 2 THEN 2 * DEFAULT_RECONNECT_MS
    ELSE DEFAULT_RECONNECT_MS
InvokedHandlers(e) == [i \in DOMAIN e.invoked |-> e.invoked[i].handler]
Registered(m) == UNION {HandlerSet(m[i].handlers) : i \in DOMAIN m}
PatternOf(m, h) ==
    m[CHOOSE i \in DOMAIN m : h \in HandlerSet(m[i].handlers)].pattern
(* In a dispatch run the n-th function registered is HandlerNames[n].      *)
Rank(h) == CHOOSE n \in DOMAIN HandlerNames : HandlerNames[n] = h
FirstRegistered(m, p) ==
    CHOOSE n \in {Rank(h) : h \in HandlerSet(mapGet(m, p))} :
        \A k \in {Rank(h) : h \in HandlerSet(mapGet(m, p))} : n <= k

(* C32: a message on topic t is dispatched to the handlers registered      *)
(* under a pattern that matches t, each once: those registered under t     *)
(* itself first, then those of the other matching patterns, pattern by     *)
(* pattern in the order in which the patterns were first registered, and   *)
(* under one pattern in the order of registration; whether t itself was    *)
(* registered before or after the other patterns makes no difference.      *)
C32_LiteralFirstThenRegistrationOrder ==
    [][eff'.act = "onMessage" =>
          LET hs == InvokedHandlers(eff')
              t  == eff'.topic
              m  == messageHandlers
          IN  /\ HandlerSet(hs) =
                     {h \in Registered(m) : topicMatches(PatternOf(m, h), t)}
              /\ Len(hs) = Cardinality(HandlerSet(hs))
              /\ \A i, j \in DOMAIN hs :
                     i < j =>
                        LET pi == PatternOf(m, hs[i])
                            pj == PatternOf(m, hs[j])
                        IN  /\ pj = t => pi = t
                            /\ (pi # t /\ pj # t /\ pi # pj) =>
                                   FirstRegistered(m, pi) < FirstRegistered(m, pj)
                            /\ pi = pj => Rank(hs[i]) < Rank(hs[j])
      ]_vars

(* Two wildcard patterns were registered, then the topic itself: its       *)
(* handler runs first, the others follow in the order of registration.     *)
C32_Witness ==
    /\ eff.act = "onMessage"
    /\ eff.topic = TopicAB
    /\ mapKeys(messageHandlers) = <<PatternAll, PatternAPlus, TopicAB>>
    /\ InvokedHandlers(eff) = <<"h3", "h1", "h2">>

(* C39: a handler that calls subscribe() or disconnect() while a message   *)
(* is dispatched changes nothing about that dispatch: the handlers invoked *)
(* are those, in that order, which the dispatch invokes without the call;  *)
(* a function subscribed during the dispatch is registered after it and    *)
(* not invoked in it, and every dispatch invokes all functions that were   *)
(* registered under a matching pattern when the message arrived.           *)
C39_DispatchOnSnapshot ==
    [][eff'.act = "onMessage" =>
          /\ InvokedHandlers(eff') =
                 InvokedHandlers(
                     onMessage(BeginWith("onMessage", eff'.topic, eff'.arg),
                               eff'.topic, eff'.arg, {}).eff)
          /\ eff'.reentry.does = "subscribe" =>
                 /\ eff'.reentry.handler \notin HandlerSet(InvokedHandlers(eff'))
                 /\ mapGet(messageHandlers', eff'.reentry.pattern) =
                        Append(mapGet(messageHandlers, eff'.reentry.pattern),
                               eff'.reentry.handler)
          /\ eff'.reentry.does = "disconnect" =>
                 /\ messageHandlers' = messageHandlers
                 /\ manualDisconnect'
          /\ \A h \in Registered(messageHandlers) :
                 topicMatches(PatternOf(messageHandlers, h), eff'.topic) =>
                     h \in HandlerSet(InvokedHandlers(eff'))
      ]_vars

(* The first of two handlers of a message subscribed a third function to   *)
(* the topic of the message while it ran.                                  *)
C39_Witness ==
    /\ eff.act = "onMessage"
    /\ eff.reentry.does = "subscribe"
    /\ eff.reentry.pattern = eff.topic
    /\ Len(eff.invoked) = 2
    /\ eff.reentry.by = eff.invoked[1].handler
    /\ eff.reentry.handler \in HandlerSet(mapGet(messageHandlers, eff.topic))

(* C40: aborting a started account disconnects the client its own         *)
(* startAccount call created: no manager that holds a live object is left  *)
(* without anything referring to it, and the abort of an account that was  *)
(* followed by another startAccount call neither calls end() on the        *)
(* manager of the later account nor clears the reference to it.            *)
C40_AbortOwnClientOnly ==
    /\ channel.detached = 0
    /\ (eff.act = "abort" /\ eff.arg = "earlier") =>
           /\ CallCount(eff, "end") = 0
           /\ channel.mqttClient = "set"
    /\ channel.start = "serving" => channel.mqttClient = "set"

====
